---- MODULE Spec2Model ----
(***************************************************************************)
(* Auto MOC Linker (src/main.js): a run scans the notes of a vault,        *)
(* extracts their tags, and inserts a link line for each note into the     *)
(* hub ("MOC") documents that the tag mappings name.                       *)
(*                                                                         *)
(* Texts, paths, tags and names are sequences of one-character strings,    *)
(* so that the string functions of the source (split, indexOf, trim,       *)
(* replace, the regular expressions) are computed as the code computes     *)
(* them.                                                                   *)
(***************************************************************************)
EXTENDS Integers, Sequences, FiniteSets, TLC

(***************************************************************************)
(* Characters                                                              *)
(***************************************************************************)

\* \s of a JavaScript regular expression and the characters trim() removes
\* (the ones a TLA+ string can hold).
WhiteSpace == {" ", "\t", "\n", "\r", "\f"}

\* The line terminators: what ^ and $ of an 'm' regular expression stop at
\* and what '.' does not match.
LineTerminators == {"\n", "\r"}

UpperCase == <<"A","B","C","D","E","F","G","H","I","J","K","L","M",
               "N","O","P","Q","R","S","T","U","V","W","X","Y","Z">>

LowerCase == <<"a","b","c","d","e","f","g","h","i","j","k","l","m",
               "n","o","p","q","r","s","t","u","v","w","x","y","z">>

Digits == {"0","1","2","3","4","5","6","7","8","9"}

\* [a-zA-Z0-9_-] of the inline tag pattern.
TagChars == {UpperCase[i] : i \in 1..26} \cup {LowerCase[i] : i \in 1..26}
            \cup Digits \cup {"_", "-"}

(***************************************************************************)
(* The string functions of JavaScript that the source calls                *)
(***************************************************************************)

\* pat occurs in s at position i.
OccursAt(s, pat, i) ==
    /\ i >= 1
    /\ i + Len(pat) - 1 <= Len(s)
    /\ \A k \in 1..Len(pat) : s[i + k - 1] = pat[k]

\* s.indexOf(pat) searched from position from: the first position, 0 for none.
IndexFrom(s, pat, from) ==
    LET hits == {i \in from..(Len(s) + 1) : OccursAt(s, pat, i)}
    IN  IF hits = {} THEN 0 ELSE CHOOSE i \in hits : \A j \in hits : i <= j

IndexOf(s, pat) == IndexFrom(s, pat, 1)

Includes(seq, x) == \E i \in 1..Len(seq) : seq[i] = x

StartsWith(s, pat) == OccursAt(s, pat, 1)

EndsWith(s, pat) == Len(pat) <= Len(s) /\ OccursAt(s, pat, Len(s) - Len(pat) + 1)

ToLowerChar(c) ==
    IF \E i \in 1..26 : UpperCase[i] = c
    THEN LowerCase[CHOOSE i \in 1..26 : UpperCase[i] = c]
    ELSE c

ToLowerCase(s) == [i \in 1..Len(s) |-> ToLowerChar(s[i])]

\* s.trim()
Trim(s) ==
    LET keep == {i \in 1..Len(s) : s[i] \notin WhiteSpace}
    IN  IF keep = {} THEN <<>>
        ELSE SubSeq(s, CHOOSE i \in keep : \A j \in keep : i <= j,
                       CHOOSE i \in keep : \A j \in keep : i >= j)

\* s.split(sep) for a non-empty separator, from position from on.
RECURSIVE SplitFrom(_, _, _)
SplitFrom(s, sep, from) ==
    LET i == IndexFrom(s, sep, from)
    IN  IF i = 0 THEN <<SubSeq(s, from, Len(s))>>
        ELSE <<SubSeq(s, from, i - 1)>> \o SplitFrom(s, sep, i + Len(sep))

Split(s, sep) == SplitFrom(s, sep, 1)

\* The replacement string of String.prototype.replace from position i on:
\* $$ is a dollar sign, $& the matched text, $` the text before the match and
\* $' the text after it. Neither pattern of the source has a capture group, so
\* $1.. stay as they are.
RECURSIVE Substitution(_, _, _, _, _)
Substitution(repl, i, matched, before, after) ==
    IF i > Len(repl) THEN <<>>
    ELSE IF repl[i] = "$" /\ i < Len(repl) /\ repl[i + 1] \in {"$", "&", "`", "'"}
    THEN (CASE repl[i + 1] = "$" -> <<"$">>
            [] repl[i + 1] = "&" -> matched
            [] repl[i + 1] = "`" -> before
            [] repl[i + 1] = "'" -> after)
         \o Substitution(repl, i + 2, matched, before, after)
    ELSE <<repl[i]>> \o Substitution(repl, i + 1, matched, before, after)

\* s.replace(pat, repl) with a string pattern: the first occurrence only.
ReplaceFirst(s, pat, repl) ==
    LET i == IndexOf(s, pat)
    IN  IF i = 0 THEN s
        ELSE LET before == SubSeq(s, 1, i - 1)
                 after  == SubSeq(s, i + Len(pat), Len(s))
             IN  before \o Substitution(repl, 1, pat, before, after) \o after

(***************************************************************************)
(* addLinkToMOC                                                            *)
(***************************************************************************)

\* Position p of content is matched by ^ (flag m) / by $ (flag m).
AtLineStart(content, p) == p = 1 \/ content[p - 1] \in LineTerminators

AtLineEnd(content, p) == p = Len(content) + 1 \/ content[p] \in LineTerminators

\* The lengths the \s* of headingRegex can take when the heading was matched
\* up to position q - 1: a run of white space (line breaks included) that
\* ends where $ matches.
HeadingTails(content, q) ==
    {k \in 0..(Len(content) - q + 1) :
        /\ \A j \in q..(q + k - 1) : content[j] \in WhiteSpace
        /\ AtLineEnd(content, q + k)}

\* headingRegex matches at position p: the escaped heading is matched
\* literally.
HeadingMatchesAt(content, heading, p) ==
    /\ AtLineStart(content, p)
    /\ OccursAt(content, heading, p)
    /\ HeadingTails(content, p + Len(heading)) # {}

\* headingRegex.test(content)
HeadingTest(content, heading) ==
    \E p \in 1..(Len(content) + 1) : HeadingMatchesAt(content, heading, p)

\* The first match of headingRegex: <<first position, last position>>; \s* is
\* greedy.
HeadingMatch(content, heading) ==
    LET starts == {p \in 1..(Len(content) + 1) : HeadingMatchesAt(content, heading, p)}
        p      == CHOOSE x \in starts : \A y \in starts : x <= y
        tails  == HeadingTails(content, p + Len(heading))
        k      == CHOOSE x \in tails : \A y \in tails : x >= y
    IN  <<p, p + Len(heading) + k - 1>>

\* addLinkToMOC with a pattern that takes the rest of the text into the match.
addLinkToMOCDropsRest(content, newLink, sectionHeading) ==
    IF HeadingTest(content, sectionHeading)
    THEN LET m      == HeadingMatch(content, sectionHeading)
             before == SubSeq(content, 1, m[1] - 1)
         IN  before \o sectionHeading \o <<"\n">> \o newLink
    ELSE content \o <<"\n", "\n">> \o sectionHeading \o <<"\n">> \o newLink

addLinkToMOC(content, newLink, sectionHeading) ==
    IF HeadingTest(content, sectionHeading)
    THEN LET m       == HeadingMatch(content, sectionHeading)
             before  == SubSeq(content, 1, m[1] - 1)
             matched == SubSeq(content, m[1], m[2])
             after   == SubSeq(content, m[2] + 1, Len(content))
         IN  before
             \o Substitution(sectionHeading \o <<"\n">> \o newLink, 1,
                             matched, before, after)
             \o after
    ELSE content \o <<"\n", "\n">> \o sectionHeading \o <<"\n">> \o newLink

(***************************************************************************)
(* extractExistingLinks                                                    *)
(***************************************************************************)

RECURSIVE LinksOfSections(_, _)
LinksOfSections(sections, i) ==
    IF i > Len(sections) THEN <<>>
    ELSE LET endIdx == IndexOf(sections[i], <<"]", "]">>)
         IN  (IF endIdx # 0
              THEN LET link == SubSeq(sections[i], 1, endIdx - 1)
                   IN  <<Trim(Split(link, <<"|">>)[1])>>
              ELSE <<>>)
             \o LinksOfSections(sections, i + 1)

extractExistingLinks(content) == LinksOfSections(Split(content, <<"[", "[">>), 2)

(***************************************************************************)
(* ensureMdExtension                                                       *)
(***************************************************************************)

MdSuffix == <<".", "m", "d">>

ensureMdExtension(path) ==
    IF path = <<>> THEN path
    ELSE IF EndsWith(ToLowerCase(path), MdSuffix) THEN path
    ELSE path \o MdSuffix

(***************************************************************************)
(* extractTags                                                             *)
(***************************************************************************)

\* The number of characters of s from position from on that are in set.
SpanIn(s, from, set) ==
    LET stops == {j \in from..Len(s) : s[j] \notin set}
    IN  IF stops = {} THEN Len(s) - from + 1
        ELSE (CHOOSE j \in stops : \A k \in stops : j <= k) - from

\* The number of characters of s from position from on that are not in set.
SpanNotIn(s, from, set) ==
    LET stops == {j \in from..Len(s) : s[j] \in set}
    IN  IF stops = {} THEN Len(s) - from + 1
        ELSE (CHOOSE j \in stops : \A k \in stops : j <= k) - from

TagsKey == <<"t", "a", "g", "s">>

\* content.match(/^---\n([\s\S]*?)\n---/)[1]: the front-matter, the empty
\* text when there is none (an empty group is skipped like a missing one).
Frontmatter(content) ==
    IF ~StartsWith(content, <<"-", "-", "-", "\n">>) THEN <<>>
    ELSE LET k == IndexFrom(content, <<"\n", "-", "-", "-">>, 5)
         IN  IF k = 0 THEN <<>> ELSE SubSeq(content, 5, k - 1)

\* The position after /tags\s*:/ matched at p, 0 when it does not match there.
AfterTagsColon(fm, p) ==
    IF ~OccursAt(fm, TagsKey, p) THEN 0
    ELSE LET c == p + 4 + SpanIn(fm, p + 4, WhiteSpace)
         IN  IF c <= Len(fm) /\ fm[c] = ":" THEN c + 1 ELSE 0

\* /tags\s*:\s*([^\n\[\]]+)(?:\n|$)/ tried at p: the second \s* gives back
\* white space until the group that follows it is ended by a line feed or by
\* the end of the text. The position of the group, 0 for no match.
SingleTagGroupAt(fm, p) ==
    LET b    == AfterTagsColon(fm, p)
        r    == SpanIn(fm, b, WhiteSpace)
        good == {g \in b..(b + r) :
                    LET n == SpanNotIn(fm, g, {"\n", "[", "]"})
                    IN  /\ n >= 1
                        /\ (g + n = Len(fm) + 1 \/ fm[g + n] = "\n")}
    IN  IF b = 0 \/ good = {} THEN 0
        ELSE CHOOSE g \in good : \A h \in good : g >= h

\* The scalar form: the tags it pushes.
SingleTags(fm) ==
    LET ps == {p \in 1..Len(fm) : SingleTagGroupAt(fm, p) # 0}
    IN  IF ps = {} THEN <<>>
        ELSE LET p == CHOOSE x \in ps : \A y \in ps : x <= y
                 g == SingleTagGroupAt(fm, p)
             IN  <<Trim(SubSeq(fm, g, g + SpanNotIn(fm, g, {"\n", "[", "]"}) - 1))>>

\* /tags\s*:\s*\[(.*?)\]/ tried at p: <<first, last>> position of the group,
\* <<0, 0>> for no match.
InlineArrayGroupAt(fm, p) ==
    LET b == AfterTagsColon(fm, p)
        o == b + SpanIn(fm, b, WhiteSpace)
        n == SpanNotIn(fm, o + 1, {"]"} \cup LineTerminators)
    IN  IF b # 0 /\ o <= Len(fm) /\ fm[o] = "["
           /\ o + 1 + n <= Len(fm) /\ fm[o + 1 + n] = "]"
        THEN <<o + 1, o + n>>
        ELSE <<0, 0>>

\* The inline list form: the tags it pushes.
InlineArrayTags(fm) ==
    LET ps == {p \in 1..Len(fm) : InlineArrayGroupAt(fm, p) # <<0, 0>>}
    IN  IF ps = {} THEN <<>>
        ELSE LET p     == CHOOSE x \in ps : \A y \in ps : x <= y
                 g     == InlineArrayGroupAt(fm, p)
                 parts == Split(SubSeq(fm, g[1], g[2]), <<",">>)
             IN  SelectSeq([i \in 1..Len(parts) |-> Trim(parts[i])],
                           LAMBDA tag : Len(tag) > 0)

\* line.match(/^\s*-\s*(.+)$/): the tag pushed for a list item, as a sequence
\* of zero or one tags. The group holds no line terminator and at least one
\* character.
BlockItemTag(line) ==
    LET a    == 1 + SpanIn(line, 1, WhiteSpace)
        rest == SubSeq(line, a + 1, Len(line))
        ks   == {k \in 0..(Len(rest) - 1) :
                    /\ \A j \in 1..k : rest[j] \in WhiteSpace
                    /\ \A j \in (k + 1)..Len(rest) : rest[j] \notin LineTerminators}
    IN  IF a <= Len(line) /\ line[a] = "-" /\ ks # {}
        THEN <<Trim(SubSeq(rest, 1 + (CHOOSE k \in ks : \A h \in ks : k >= h),
                           Len(rest)))>>
        ELSE <<>>

\* The loop over the lines of the front-matter (the block list form).
RECURSIVE BlockTags(_, _, _)
BlockTags(lines, i, inTagsBlock) ==
    IF i > Len(lines) THEN <<>>
    ELSE IF AfterTagsColon(lines[i], 1) # 0 THEN BlockTags(lines, i + 1, TRUE)
    ELSE IF ~inTagsBlock THEN BlockTags(lines, i + 1, FALSE)
    ELSE IF BlockItemTag(lines[i]) # <<>>
         THEN BlockItemTag(lines[i]) \o BlockTags(lines, i + 1, TRUE)
    ELSE BlockTags(lines, i + 1, StartsWith(Trim(lines[i]), <<"-">>))

\* The inline tags of the whole text.
BodyTags(content) ==
    LET parts == Split(content, <<"#">>)
        runs  == [i \in 1..(Len(parts) - 1) |->
                     SubSeq(parts[i + 1], 1, SpanIn(parts[i + 1], 1, TagChars))]
    IN  SelectSeq(runs, LAMBDA tag : Len(tag) > 0)

extractTags(content) ==
    LET fm == Frontmatter(content)
    IN  (IF fm = <<>> THEN <<>>
         ELSE SingleTags(fm) \o InlineArrayTags(fm)
              \o BlockTags(Split(fm, <<"\n">>), 1, FALSE))
        \o BodyTags(content)

(***************************************************************************)
(* The vault and the settings a run works on                               *)
(***************************************************************************)

\* The most runs of a behaviour, the most failing reads and writes of a
\* behaviour, and the largest batch size tried.
MaxRuns == 2

MaxFailures == 1

MaxBatch == 2

\* The files of the vault (TFile: path, basename, extension) and its one
\* folder (TFolder: path, children). Two notes share the basename A; the
\* basename of one note holds dollar signs.
NoteA == [path |-> <<"A", ".", "m", "d">>, basename |-> <<"A">>, extension |-> <<"m", "d">>]

NoteA2 == [path |-> <<"d", "/", "A", ".", "m", "d">>, basename |-> <<"A">>, extension |-> <<"m", "d">>]

NoteD == [path |-> <<"$", "$", ".", "m", "d">>, basename |-> <<"$", "$">>, extension |-> <<"m", "d">>]

Image == [path |-> <<"d", "/", "i", ".", "p", "n", "g">>, basename |-> <<"i">>, extension |-> <<"p", "n", "g">>]

HubM == [path |-> <<"M", ".", "m", "d">>, basename |-> <<"M">>, extension |-> <<"m", "d">>]

HubK == [path |-> <<"K", ".", "m", "d">>, basename |-> <<"K">>, extension |-> <<"m", "d">>]

FolderD == [path |-> <<"d">>, children |-> <<NoteA2, Image>>]

Root == [path |-> <<"/">>, children |-> <<NoteA, FolderD, NoteD, HubM, HubK>>]

\* The texts the notes start with: an inline tag; a front-matter list and an
\* inline tag that repeats one of its tags; one other inline tag.
InitialNotes ==
    (NoteA.path :> <<"#", "t">>)
    @@ (NoteA2.path :> <<"-", "-", "-", "\n", "t", "a", "g", "s", ":", " ", "[", "t", ",", " ", "u", "]", "\n", "-", "-", "-", "\n", "#", "t">>)
    @@ (NoteD.path :> <<"#", "u">>)
    @@ (Image.path :> <<"p", "n", "g">>)

\* The texts hub M may start with: empty, the heading alone, the heading with
\* a blank line and a link to A under it, and a text without the heading.
HubTexts ==
    { <<>>,
      <<"#", "#", " ", "L", "i", "n", "k", "s", "\n">>,
      <<"#", "#", " ", "L", "i", "n", "k", "s", "\n", "\n", "-", " ", "[", "[", "A", "]", "]", "\n">>,
      <<"i", "n", "t", "r", "o", "\n">> }

\* The mapping tables of the settings: tags with and without '#', hub paths
\* with and without the extension, a hub that does not exist, a mapping whose
\* hub path is still empty, two tags mapped to one hub, a tag without a
\* mapping.
MappingTables ==
    { << [tag |-> <<"t">>, mocPath |-> <<"M">>],
         [tag |-> <<"#", "t">>, mocPath |-> <<"M", ".", "m", "d">>],
         [tag |-> <<"u">>, mocPath |-> <<"K">>] >>,
      << [tag |-> <<"t">>, mocPath |-> <<"X">>],
         [tag |-> <<"t">>, mocPath |-> <<>>],
         [tag |-> <<"#", "u">>, mocPath |-> <<"M">>] >>,
      << [tag |-> <<"t">>, mocPath |-> <<"M">>],
         [tag |-> <<"u">>, mocPath |-> <<"M">>] >>,
      << [tag |-> <<"t">>, mocPath |-> <<"M">>] >> }

SearchPaths == {<<"/">>, <<"d">>}

\* The defaults of loadSettings.
DefaultAppendFormat == <<"-", " ", "[", "[", "{", "{", "f", "i", "l", "e", "N", "a", "m", "e", "}", "}", "]", "]", "\n">>

DefaultSectionHeading == <<"#", "#", " ", "L", "i", "n", "k", "s">>

Placeholder == <<"{", "{", "f", "i", "l", "e", "N", "a", "m", "e", "}", "}">>

(***************************************************************************)
(* State                                                                   *)
(***************************************************************************)

VARIABLES
    vault,            \* the text of every file, by path (the storage)
    settings,         \* this.settings
    fileCache,        \* this.fileCache: note path -> [content, tags]
    mocLinksCache,    \* this.mocLinksCache: hub path -> [content, links]
    totalNotesAdded,  \* this.totalNotesAdded
    run,              \* the run in progress: its position and its locals
    notices,          \* the notices shown so far
    runs,             \* the number of runs that have reported
    failures,         \* the number of reads and writes that have failed
    vault0,           \* history: the vault when the current run started
    writes,           \* history: the hub writes of the current run
    touched,          \* history: the notes and (note, hub) pairs a failure hit
    visited,          \* history: the notes the current run has come to
    call,             \* a call of a function on its own: arguments and results
    other,            \* a run that is suspended while a later invocation runs
    edits             \* the number of changes made to notes from outside

vars == <<vault, settings, fileCache, mocLinksCache, totalNotesAdded, run,
          notices, runs, failures, vault0, writes, touched, visited, call,
          other, edits>>

\* What no step of a run changes, but for its own history.
history == <<vault0, writes, touched, visited>>

\* What only another invocation of the command or a change from outside
\* changes.
outside == <<other, edits>>

\* A function without entry k / with entry k set to v.
Without(f, k) == [x \in DOMAIN f \ {k} |-> f[x]]

With(f, k, v) == [x \in DOMAIN f \cup {k} |-> IF x = k THEN v ELSE f[x]]

EmptyCache == [x \in {} |-> x]

\* No call of addLinkToMOC on its own.
NoCall == [stage |-> "none"]

\* No run in progress.
IdleRun ==
    [pc |-> "idle", files |-> <<>>, i |-> 0, filesProcessed |-> 0,
     batch |-> <<>>, fidx |-> 0, tags |-> <<>>, tidx |-> 0,
     mappings |-> <<>>, midx |-> 0, links |-> <<>>, updatedContent |-> <<>>,
     pending |-> <<>>]

(***************************************************************************)
(* getFilesInPath                                                          *)
(***************************************************************************)

IsFolder(node) == "children" \in DOMAIN node

\* collectFiles: the markdown files under a folder, in the order of the walk.
RECURSIVE collectFiles(_, _)
collectFiles(children, k) ==
    IF k > Len(children) THEN <<>>
    ELSE (IF IsFolder(children[k]) THEN collectFiles(children[k].children, 1)
          ELSE IF children[k].extension = <<"m", "d">> THEN <<children[k]>>
          ELSE <<>>)
         \o collectFiles(children, k + 1)

\* vault.getMarkdownFiles()
getMarkdownFiles == collectFiles(Root.children, 1)

\* vault.getAbstractFileByPath(path) for a folder of the vault: the folders
\* with that path (none or one).
FoldersAt(path) == {node \in {FolderD} : node.path = path}

\* The tree of the vault holds the files that exist.
getFilesInPath(path) ==
    LET files == IF path = <<"/">> THEN getMarkdownFiles
                 ELSE IF FoldersAt(path) = {} THEN <<>>
                 ELSE collectFiles((CHOOSE node \in FoldersAt(path) : TRUE).children, 1)
    IN  SelectSeq(files, LAMBDA file : file.path \in DOMAIN vault)

(***************************************************************************)
(* Init                                                                    *)
(***************************************************************************)

Init ==
    \E hubText \in HubTexts, table \in MappingTables,
       searchPath \in SearchPaths, size \in 1..MaxBatch :
        /\ vault = InitialNotes @@ (HubM.path :> hubText) @@ (HubK.path :> <<>>)
        /\ settings = [tagMappings    |-> table,
                       defaultPath    |-> searchPath,
                       appendFormat   |-> DefaultAppendFormat,
                       sectionHeading |-> DefaultSectionHeading,
                       batchSize      |-> size]
        /\ fileCache = EmptyCache
        /\ mocLinksCache = EmptyCache
        /\ totalNotesAdded = 0
        /\ run = IdleRun
        /\ notices = <<>>
        /\ runs = 0
        /\ failures = 0
        /\ vault0 = vault
        /\ writes = <<>>
        /\ touched = {}
        /\ visited = <<>>
        /\ call = NoCall
        /\ other = IdleRun
        /\ edits = 0

(***************************************************************************)
(* runAutoIndex                                                            *)
(***************************************************************************)

\* this.settings.defaultPath || '/'
SearchPath == IF settings.defaultPath = <<>> THEN <<"/">> ELSE settings.defaultPath

\* The command: from its start to the first test of the batch loop.
StartRun ==
    /\ run.pc = "idle"
    /\ runs < MaxRuns
    /\ LET files == getFilesInPath(SearchPath)
       IN  /\ run' = [IdleRun EXCEPT !.pc = "batches", !.files = files]
           /\ notices' = Append(notices, [kind |-> "start", n |-> Len(files)])
    /\ totalNotesAdded' = 0
    /\ mocLinksCache' = EmptyCache
    /\ vault0' = vault
    /\ writes' = <<>>
    /\ touched' = {}
    /\ visited' = <<>>
    /\ UNCHANGED <<call, outside, vault, settings, fileCache, runs, failures>>

\* Mutant of Slice: the batch ends one file early.
SliceShort(files, i, batchSize) ==
    SubSeq(files, i + 1,
           IF i + batchSize - 1 < Len(files) THEN i + batchSize - 1 ELSE Len(files))

\* files.slice(i, i + batchSize)
Slice(files, i, batchSize) ==
    SubSeq(files, i + 1, IF i + batchSize < Len(files) THEN i + batchSize ELSE Len(files))

\* The start of the next batch.
NextBatchStart(i, batchSize) == i + batchSize

\* The batch loop goes on: processBatch is called with the next batch.
NextBatch ==
    /\ run.pc = "batches"
    /\ run.i < Len(run.files)
    /\ run' = [run EXCEPT !.pc = "files",
                          !.batch = Slice(run.files, run.i, settings.batchSize),
                          !.fidx = 1]
    /\ UNCHANGED <<call, outside, vault, settings, fileCache, mocLinksCache, totalNotesAdded,
                   notices, runs, failures, history>>

\* processBatch has returned: the progress notice and the next batch.
EndOfBatch ==
    /\ run.pc = "files"
    /\ run.fidx > Len(run.batch)
    /\ LET processed == run.filesProcessed + Len(run.batch)
       IN  /\ run' = [run EXCEPT !.pc = "batches",
                                 !.i = NextBatchStart(run.i, settings.batchSize),
                                 !.filesProcessed = processed,
                                 !.batch = <<>>,
                                 !.fidx = 0]
           /\ notices' = IF processed % 100 = 0 \/ processed = Len(run.files)
                         THEN Append(notices, [kind |-> "progress", n |-> processed])
                         ELSE notices
    /\ UNCHANGED <<call, outside, vault, settings, fileCache, mocLinksCache, totalNotesAdded,
                   runs, failures, history>>

\* The batch loop has ended: the final notice.
Report ==
    /\ run.pc = "batches"
    /\ run.i >= Len(run.files)
    /\ notices' = Append(notices, [kind |-> "complete", n |-> totalNotesAdded])
    /\ runs' = runs + 1
    /\ run' = IdleRun
    /\ UNCHANGED <<call, outside, vault, settings, fileCache, mocLinksCache, totalNotesAdded,
                   failures, history>>

(***************************************************************************)
(* processBatch                                                            *)
(***************************************************************************)

\* The file the loop of processBatch is at.
CurrentFile == run.batch[run.fidx]

\* The loop of processBatch goes to its next file.
ToNextFile(r) ==
    [r EXCEPT !.pc = "files", !.fidx = r.fidx + 1, !.tags = <<>>, !.tidx = 0]

\* A tag without its leading '#'.
StripHash(tag) == IF StartsWith(tag, <<"#">>) THEN SubSeq(tag, 2, Len(tag)) ELSE tag

\* Mutant of matchingMappings: the tags are compared without regard to case.
matchingMappingsAnyCase(tagMappings, tag) ==
    SelectSeq(tagMappings,
              LAMBDA mapping : ToLowerCase(StripHash(mapping.tag)) = ToLowerCase(StripHash(tag)))

\* The mappings that match a tag of the note.
matchingMappings(tagMappings, tag) ==
    SelectSeq(tagMappings, LAMBDA mapping : StripHash(mapping.tag) = StripHash(tag))

\* A file that is not markdown is passed over (getFilesInPath returns none).
\* A note in the cache is not read again.
UseCachedNote ==
    /\ run.pc = "files"
    /\ run.fidx <= Len(run.batch)
    /\ IF CurrentFile.extension # <<"m", "d">>
       THEN run' = ToNextFile(run)
       ELSE /\ CurrentFile.path \in DOMAIN fileCache
            /\ run' = [run EXCEPT !.pc = "tags",
                                  !.tags = fileCache[CurrentFile.path].tags,
                                  !.tidx = 1]
    /\ visited' = Append(visited, CurrentFile.path)
    /\ UNCHANGED <<call, outside, vault, settings, fileCache, mocLinksCache, totalNotesAdded,
                   notices, runs, failures, vault0, writes, touched>>

\* A note that is not in the cache: vault.read(file) is awaited.
BeginReadNote ==
    /\ run.pc = "files"
    /\ run.fidx <= Len(run.batch)
    /\ CurrentFile.extension = <<"m", "d">>
    /\ CurrentFile.path \notin DOMAIN fileCache
    /\ run' = [run EXCEPT !.pc = "readNote", !.pending = vault[CurrentFile.path]]
    /\ visited' = Append(visited, CurrentFile.path)
    /\ UNCHANGED <<call, outside, vault, settings, fileCache, mocLinksCache, totalNotesAdded,
                   notices, runs, failures, vault0, writes, touched>>

\* The read returns the text of the note: the text and its tags are cached.
ReadNoteOk ==
    /\ run.pc = "readNote"
    /\ LET content == vault[CurrentFile.path]
           tags    == extractTags(content)
       IN  /\ fileCache' = With(fileCache, CurrentFile.path,
                                [content |-> content, tags |-> tags])
           /\ run' = [run EXCEPT !.pc = "tags", !.tags = tags, !.tidx = 1]
    /\ UNCHANGED <<call, outside, vault, settings, mocLinksCache, totalNotesAdded, notices,
                   runs, failures, history>>

\* Mutant of ReadNoteFail: the loop over the batch is left (break).
ReadNoteFailBreak ==
    /\ run.pc = "readNote"
    /\ failures < MaxFailures
    /\ failures' = failures + 1
    /\ touched' = touched \cup {[kind |-> "readNote", note |-> CurrentFile.path,
                                  path |-> CurrentFile.path]}
    /\ run' = [ToNextFile(run) EXCEPT !.fidx = Len(run.batch) + 1]
    /\ UNCHANGED <<call, outside, vault, settings, fileCache, mocLinksCache, totalNotesAdded,
                   notices, runs, vault0, writes, visited>>

\* Mutant of ReadNoteFail: the error is not caught and ends the run.
ReadNoteFailThrows ==
    /\ run.pc = "readNote"
    /\ failures < MaxFailures
    /\ failures' = failures + 1
    /\ touched' = touched \cup {[kind |-> "readNote", note |-> CurrentFile.path,
                                  path |-> CurrentFile.path]}
    /\ run' = [run EXCEPT !.pc = "thrown"]
    /\ UNCHANGED <<call, outside, vault, settings, fileCache, mocLinksCache, totalNotesAdded,
                   notices, runs, vault0, writes, visited>>

\* The read fails: the error is logged and the loop continues.
ReadNoteFail ==
    /\ run.pc = "readNote"
    /\ failures < MaxFailures
    /\ failures' = failures + 1
    /\ touched' = touched \cup {[kind |-> "readNote", note |-> CurrentFile.path,
                                  path |-> CurrentFile.path]}
    /\ run' = ToNextFile(run)
    /\ UNCHANGED <<call, outside, vault, settings, fileCache, mocLinksCache, totalNotesAdded,
                   notices, runs, vault0, writes, visited>>

\* The note has no tag (left): the next file.
EndOfTags ==
    /\ run.pc = "tags"
    /\ run.tidx > Len(run.tags)
    /\ run' = ToNextFile(run)
    /\ UNCHANGED <<call, outside, vault, settings, fileCache, mocLinksCache, totalNotesAdded,
                   notices, runs, failures, history>>

\* No mapping matches the tag: the next tag.
NoMapping ==
    /\ run.pc = "tags"
    /\ run.tidx <= Len(run.tags)
    /\ matchingMappings(settings.tagMappings, run.tags[run.tidx]) = <<>>
    /\ run' = [run EXCEPT !.tidx = run.tidx + 1]
    /\ UNCHANGED <<call, outside, vault, settings, fileCache, mocLinksCache, totalNotesAdded,
                   notices, runs, failures, history>>

\* Some mappings match the tag: processTagMappings is called with them.
BeginMappings ==
    /\ run.pc = "tags"
    /\ run.tidx <= Len(run.tags)
    /\ matchingMappings(settings.tagMappings, run.tags[run.tidx]) # <<>>
    /\ run' = [run EXCEPT !.pc = "mappings",
                          !.mappings = matchingMappings(settings.tagMappings,
                                                        run.tags[run.tidx]),
                          !.midx = 1]
    /\ UNCHANGED <<call, outside, vault, settings, fileCache, mocLinksCache, totalNotesAdded,
                   notices, runs, failures, history>>

(***************************************************************************)
(* processTagMappings                                                      *)
(***************************************************************************)

\* The mapping the loop of processTagMappings is at, and its hub path.
CurrentMapping == run.mappings[run.midx]

CurrentMocPath == ensureMdExtension(CurrentMapping.mocPath)

\* The loop of processTagMappings goes to its next mapping.
ToNextMapping(r) ==
    [r EXCEPT !.pc = "mappings", !.midx = r.midx + 1,
              !.links = <<>>, !.updatedContent = <<>>]

\* vault.getAbstractFileByPath(mocPath) finds the hub.
MocFileExists(mocPath) == mocPath \in DOMAIN vault

\* The 'delete' handler of onload: the cache entry of a deleted file is dropped.
OnDelete(cache, path) == Without(cache, path)

\* The 'modify' handler of onload: the cache entry of a changed file is dropped.
OnModify(cache, path) == IF path \in DOMAIN cache THEN Without(cache, path) ELSE cache

\* The link line of a note.
NewLink(appendFormat, fileName) == ReplaceFirst(appendFormat, Placeholder, fileName)

\* this.settings.sectionHeading || '## Links'
SectionHeading == IF settings.sectionHeading = <<>> THEN DefaultSectionHeading
                  ELSE settings.sectionHeading

\* Mutant of ModifiedPath: vault.modify is called with the note.
ModifiedPathOfNote == CurrentFile.path

\* The path of mocFile, the file vault.modify is called with.
ModifiedPath == CurrentMocPath

\* Mutant of ContentAfterInsert: the cached text of the hub is not replaced.
ContentNotRefreshed(content, updatedContent) == content

\* The text of the hub in the cache after an insertion.
ContentAfterInsert(content, updatedContent) == updatedContent

\* Mutant of LinksAfterInsert: the known links are not refreshed.
LinksNotRefreshed(links, fileName) == links

\* The known links of a hub after a note was inserted.
LinksAfterInsert(links, fileName) == Append(links, fileName)

\* processTagMappings returns: the next tag.
EndOfMappings ==
    /\ run.pc = "mappings"
    /\ run.midx > Len(run.mappings)
    /\ run' = [run EXCEPT !.pc = "tags", !.tidx = run.tidx + 1,
                          !.mappings = <<>>, !.midx = 0]
    /\ UNCHANGED <<call, outside, vault, settings, fileCache, mocLinksCache, totalNotesAdded,
                   notices, runs, failures, history>>

\* A mapping without hub path is passed over.
SkipNoPath ==
    /\ run.pc = "mappings"
    /\ run.midx <= Len(run.mappings)
    /\ CurrentMapping.mocPath = <<>>
    /\ run' = ToNextMapping(run)
    /\ UNCHANGED <<call, outside, vault, settings, fileCache, mocLinksCache, totalNotesAdded,
                   notices, runs, failures, history>>

\* Mutant of MocNotFound: the hub is created with the link.
MocNotFoundCreates ==
    /\ run.pc = "mappings"
    /\ run.midx <= Len(run.mappings)
    /\ CurrentMapping.mocPath # <<>>
    /\ ~MocFileExists(CurrentMocPath)
    /\ vault' = With(vault, CurrentMocPath,
                     SectionHeading \o <<"\n">>
                     \o NewLink(settings.appendFormat, CurrentFile.basename))
    /\ totalNotesAdded' = totalNotesAdded + 1
    /\ run' = ToNextMapping(run)
    /\ UNCHANGED <<call, outside, settings, fileCache, mocLinksCache, notices, runs,
                   failures, history>>

\* The hub does not exist: logged, the next mapping.
MocNotFound ==
    /\ run.pc = "mappings"
    /\ run.midx <= Len(run.mappings)
    /\ CurrentMapping.mocPath # <<>>
    /\ ~MocFileExists(CurrentMocPath)
    /\ run' = ToNextMapping(run)
    /\ UNCHANGED <<call, outside, vault, settings, fileCache, mocLinksCache, totalNotesAdded,
                   notices, runs, failures, history>>

\* The hub is not in the cache of this run: vault.read(mocFile) is awaited.
BeginReadMoc ==
    /\ run.pc = "mappings"
    /\ run.midx <= Len(run.mappings)
    /\ CurrentMapping.mocPath # <<>>
    /\ MocFileExists(CurrentMocPath)
    /\ CurrentMocPath \notin DOMAIN mocLinksCache
    /\ run' = [run EXCEPT !.pc = "readMoc"]
    /\ UNCHANGED <<call, outside, vault, settings, fileCache, mocLinksCache, totalNotesAdded,
                   notices, runs, failures, history>>

\* The hub is in the cache of this run.
MocCached ==
    /\ run.pc = "mappings"
    /\ run.midx <= Len(run.mappings)
    /\ CurrentMapping.mocPath # <<>>
    /\ MocFileExists(CurrentMocPath)
    /\ CurrentMocPath \in DOMAIN mocLinksCache
    /\ run' = [run EXCEPT !.pc = "check"]
    /\ UNCHANGED <<call, outside, vault, settings, fileCache, mocLinksCache, totalNotesAdded,
                   notices, runs, failures, history>>

\* The read returns the text of the hub: the text and its links are cached.
ReadMocOk ==
    /\ run.pc = "readMoc"
    /\ LET mocContent == vault[CurrentMocPath]
       IN  mocLinksCache' = With(mocLinksCache, CurrentMocPath,
                                 [content |-> mocContent,
                                  links   |-> extractExistingLinks(mocContent)])
    /\ run' = [run EXCEPT !.pc = "check"]
    /\ UNCHANGED <<call, outside, vault, settings, fileCache, totalNotesAdded, notices, runs,
                   failures, history>>

\* The read fails: logged, the next mapping.
ReadMocFail ==
    /\ run.pc = "readMoc"
    /\ failures < MaxFailures
    /\ failures' = failures + 1
    /\ touched' = touched \cup {[kind |-> "readMoc", note |-> CurrentFile.path,
                                  path |-> CurrentMocPath]}
    /\ run' = ToNextMapping(run)
    /\ UNCHANGED <<call, outside, vault, settings, fileCache, mocLinksCache, totalNotesAdded,
                   notices, runs, vault0, writes, visited>>

\* The note is among the known links of the hub: the next mapping.
AlreadyLinked ==
    /\ run.pc = "check"
    /\ Includes(mocLinksCache[CurrentMocPath].links, CurrentFile.basename)
    /\ run' = ToNextMapping(run)
    /\ UNCHANGED <<call, outside, vault, settings, fileCache, mocLinksCache, totalNotesAdded,
                   notices, runs, failures, history>>

\* The note is not among them: the new text of the hub is built and
\* vault.modify(mocFile, updatedContent) is awaited.
BeginModify ==
    /\ run.pc = "check"
    /\ ~Includes(mocLinksCache[CurrentMocPath].links, CurrentFile.basename)
    /\ LET mocData == mocLinksCache[CurrentMocPath]
           newLink == NewLink(settings.appendFormat, CurrentFile.basename)
       IN  run' = [run EXCEPT !.pc = "modify",
                              !.links = mocData.links,
                              !.updatedContent =
                                  addLinkToMOC(mocData.content, newLink, SectionHeading)]
    /\ UNCHANGED <<call, outside, vault, settings, fileCache, mocLinksCache, totalNotesAdded,
                   notices, runs, failures, history>>

\* The write is done (the vault emits 'modify' for the hub): the counter and
\* the cache of the hub are updated.
ModifyOk ==
    /\ run.pc = "modify"
    /\ vault' = [vault EXCEPT ![ModifiedPath] = run.updatedContent]
    /\ fileCache' = OnModify(fileCache, CurrentMocPath)
    /\ totalNotesAdded' = totalNotesAdded + 1
    /\ mocLinksCache' = With(mocLinksCache, CurrentMocPath,
                             [content |-> ContentAfterInsert(
                                              mocLinksCache[CurrentMocPath].content,
                                              run.updatedContent),
                              links   |-> LinksAfterInsert(run.links,
                                                           CurrentFile.basename)])
    /\ writes' = Append(writes, [path     |-> CurrentMocPath,
                                 fileName |-> CurrentFile.basename,
                                 note     |-> CurrentFile.path,
                                 content  |-> run.updatedContent])
    /\ run' = ToNextMapping(run)
    /\ UNCHANGED <<call, outside, settings, notices, runs, failures, vault0, touched, visited>>

\* Mutant of ModifyFail: the counter is incremented before the write.
ModifyFailCounted ==
    /\ run.pc = "modify"
    /\ failures < MaxFailures
    /\ failures' = failures + 1
    /\ totalNotesAdded' = totalNotesAdded + 1
    /\ touched' = touched \cup {[kind |-> "modify", note |-> CurrentFile.path,
                                  path |-> CurrentMocPath]}
    /\ run' = ToNextMapping(run)
    /\ UNCHANGED <<call, outside, vault, settings, fileCache, mocLinksCache,
                   notices, runs, vault0, writes, visited>>

\* Mutant of ModifyFail: the cache of the hub is updated before the write.
ModifyFailCached ==
    /\ run.pc = "modify"
    /\ failures < MaxFailures
    /\ failures' = failures + 1
    /\ mocLinksCache' = With(mocLinksCache, CurrentMocPath,
                             [content |-> run.updatedContent,
                              links   |-> Append(run.links, CurrentFile.basename)])
    /\ touched' = touched \cup {[kind |-> "modify", note |-> CurrentFile.path,
                                  path |-> CurrentMocPath]}
    /\ run' = ToNextMapping(run)
    /\ UNCHANGED <<call, outside, vault, settings, fileCache, totalNotesAdded,
                   notices, runs, vault0, writes, visited>>

\* The write fails: the error is caught and logged, the next mapping.
ModifyFail ==
    /\ run.pc = "modify"
    /\ failures < MaxFailures
    /\ failures' = failures + 1
    /\ touched' = touched \cup {[kind |-> "modify", note |-> CurrentFile.path,
                                  path |-> CurrentMocPath]}
    /\ run' = ToNextMapping(run)
    /\ UNCHANGED <<call, outside, vault, settings, fileCache, mocLinksCache, totalNotesAdded,
                   notices, runs, vault0, writes, visited>>

(***************************************************************************)
(* The specification                                                       *)
(***************************************************************************)

\* The steps of a run.
RunStep ==
    \/ NextBatch \/ EndOfBatch \/ Report
    \/ UseCachedNote \/ BeginReadNote \/ ReadNoteOk \/ ReadNoteFail
    \/ EndOfTags \/ NoMapping \/ BeginMappings
    \/ EndOfMappings \/ SkipNoPath \/ MocNotFound \/ BeginReadMoc \/ MocCached
    \/ ReadMocOk \/ ReadMocFail \/ AlreadyLinked \/ BeginModify
    \/ ModifyOk \/ ModifyFail

Next == StartRun \/ RunStep

Spec == Init /\ [][Next]_vars

\* The positions of a run at which one of its steps can be taken: each of
\* them has a step whose guard holds (the read or write that is awaited
\* completes, the loop goes on or ends).
ActivePcs == {"batches", "files", "readNote", "tags", "mappings", "readMoc",
              "check", "modify"}

\* Some step of the run is enabled.
RunStepEnabled == run.pc \in ActivePcs

\* A run that has started goes on: every read and write that is awaited
\* completes or fails, and the steps between them are taken.  This is weak
\* fairness of RunStep, written with the guard of RunStep for its
\* enabledness.
FairSpec == Spec /\ ([]<>(~RunStepEnabled) \/ []<><<RunStep>>_vars)

(***************************************************************************)
(* addLinkToMOC and extractExistingLinks on their own                      *)
(***************************************************************************)

\* The longest hub text tried.
MaxTextLen == 4

\* The characters of the hub texts tried: the heading, white space, the
\* brackets of a link, a dollar sign and a letter.
TextChars == {"H", "\n", " ", "[", "]", "$", "a"}

\* The texts of at most n characters.
RECURSIVE TextsUpTo(_)
TextsUpTo(n) ==
    IF n = 0 THEN {<<>>}
    ELSE LET shorter == TextsUpTo(n - 1)
         IN  shorter \cup {Append(t, c) : t \in shorter, c \in TextChars}

\* The headings and the note names tried.
Headings == {<<"H">>}

NoteNames == {<<"a">>, <<"a", " ", "a">>, <<"$", "$">>, <<"$", "&">>}

\* The link line "- [[X]]" of note name X.
LinkLineOf(name) == <<"-", " ", "[", "[">> \o name \o <<"]", "]">>

\* The arguments are drawn; nothing runs.
MergeInit ==
    /\ \E text \in TextsUpTo(MaxTextLen), heading \in Headings, name \in NoteNames :
        call = [stage |-> "args", content |-> text, sectionHeading |-> heading,
                name |-> name, newLink |-> LinkLineOf(name)]
    /\ vault = InitialNotes @@ (HubM.path :> <<>>) @@ (HubK.path :> <<>>)
    /\ settings = [tagMappings    |-> <<>>,
                   defaultPath    |-> <<"/">>,
                   appendFormat   |-> DefaultAppendFormat,
                   sectionHeading |-> DefaultSectionHeading,
                   batchSize      |-> 1]
    /\ fileCache = EmptyCache
    /\ mocLinksCache = EmptyCache
    /\ totalNotesAdded = 0
    /\ run = IdleRun
    /\ notices = <<>>
    /\ runs = 0
    /\ failures = 0
    /\ vault0 = vault
    /\ writes = <<>>
    /\ touched = {}
    /\ visited = <<>>
    /\ other = IdleRun
    /\ edits = 0

\* addLinkToMOC is applied to the arguments.
CallAddLinkToMOC ==
    /\ call.stage = "args"
    /\ call' = [call EXCEPT !.stage = "merged"]
                @@ [updatedContent |->
                       addLinkToMOC(call.content, call.newLink, call.sectionHeading)]
    /\ UNCHANGED <<outside, vault, settings, fileCache, mocLinksCache, totalNotesAdded,
                   run, notices, runs, failures, history>>

\* extractExistingLinks is applied to the result.
CallExtractExistingLinks ==
    /\ call.stage = "merged"
    /\ call' = [call EXCEPT !.stage = "extracted"]
                @@ [links |-> extractExistingLinks(call.updatedContent)]
    /\ UNCHANGED <<outside, vault, settings, fileCache, mocLinksCache, totalNotesAdded,
                   run, notices, runs, failures, history>>

\* The link line of the note name is built from the template.
CallNewLink ==
    /\ call.stage = "args"
    /\ call' = [call EXCEPT !.stage = "line"]
                @@ [line |-> NewLink(settings.appendFormat, call.name)]
    /\ UNCHANGED <<outside, vault, settings, fileCache, mocLinksCache, totalNotesAdded,
                   run, notices, runs, failures, history>>

MergeNext == CallAddLinkToMOC \/ CallExtractExistingLinks \/ CallNewLink

MergeSpec == MergeInit /\ [][MergeNext]_vars

(***************************************************************************)
(* C9, C10: the section merger                                             *)
(***************************************************************************)

\* A line without its trailing white space.
TrimEnd(line) ==
    LET keep == {i \in 1..Len(line) : line[i] \notin WhiteSpace}
    IN  IF keep = {} THEN <<>>
        ELSE SubSeq(line, 1, CHOOSE i \in keep : \A j \in keep : i >= j)

\* The lines of a text joined again.
RECURSIVE JoinLines(_)
JoinLines(lines) ==
    IF Len(lines) = 0 THEN <<>>
    ELSE IF Len(lines) = 1 THEN lines[1]
    ELSE lines[1] \o <<"\n">> \o JoinLines(Tail(lines))

\* The lines of the text that equal the heading but for trailing white space.
HeadingLines(content, heading) ==
    LET lines == Split(content, <<"\n">>)
    IN  {i \in 1..Len(lines) : TrimEnd(lines[i]) = heading}

\* The text with the link line put in as the line after the first heading
\* line, everything else as it was.
WithLineUnderHeading(content, newLink, heading) ==
    LET lines == Split(content, <<"\n">>)
        hs    == HeadingLines(content, heading)
        i     == CHOOSE x \in hs : \A y \in hs : x <= y
    IN  JoinLines(SubSeq(lines, 1, i) \o <<newLink>> \o SubSeq(lines, i + 1, Len(lines)))

\* C9: when the hub text has a line equal to the heading (trailing white space
\* ignored), addLinkToMOC returns the text with the link line on the line
\* right after the first such line and the rest of the text unchanged;
\* otherwise it returns the text followed by two line feeds, the heading, a
\* line feed and the link line.
C9_SectionMergerPlacement ==
    call.stage \in {"merged", "extracted"} =>
        call.updatedContent =
            IF HeadingLines(call.content, call.sectionHeading) # {}
            THEN WithLineUnderHeading(call.content, call.newLink, call.sectionHeading)
            ELSE call.content \o <<"\n", "\n">> \o call.sectionHeading
                 \o <<"\n">> \o call.newLink

\* C10: extractExistingLinks applied to addLinkToMOC(text, "- [[X]]", heading)
\* contains X.
C10_MergeThenExtract ==
    call.stage = "extracted" => Includes(call.links, call.name)

(***************************************************************************)
(* A run in one piece: processBatch applied to the whole list of files,    *)
(* with no read or write failing                                           *)
(***************************************************************************)

\* One mapping of processTagMappings. st: [vault, cache, count].
WholeMapping(st, file, mapping) ==
    LET mocPath == ensureMdExtension(mapping.mocPath)
        cache   == IF mocPath \in DOMAIN st.cache THEN st.cache
                   ELSE With(st.cache, mocPath,
                             [content |-> st.vault[mocPath],
                              links   |-> extractExistingLinks(st.vault[mocPath])])
        updated == addLinkToMOC(cache[mocPath].content,
                                NewLink(settings.appendFormat, file.basename),
                                SectionHeading)
    IN  IF mapping.mocPath = <<>> \/ mocPath \notin DOMAIN st.vault THEN st
        ELSE IF Includes(cache[mocPath].links, file.basename)
        THEN [st EXCEPT !.cache = cache]
        ELSE [vault |-> [st.vault EXCEPT ![mocPath] = updated],
              cache |-> With(cache, mocPath,
                             [content |-> updated,
                              links   |-> LinksAfterInsert(cache[mocPath].links,
                                                           file.basename)]),
              count |-> st.count + 1]

RECURSIVE WholeMappings(_, _, _, _)
WholeMappings(st, file, mappings, k) ==
    IF k > Len(mappings) THEN st
    ELSE WholeMappings(WholeMapping(st, file, mappings[k]), file, mappings, k + 1)

RECURSIVE WholeTags(_, _, _, _)
WholeTags(st, file, tags, k) ==
    IF k > Len(tags) THEN st
    ELSE WholeTags(WholeMappings(st, file,
                                 matchingMappings(settings.tagMappings, tags[k]), 1),
                   file, tags, k + 1)

RECURSIVE WholeBatch(_, _, _)
WholeBatch(st, files, k) ==
    IF k > Len(files) THEN st
    ELSE WholeBatch(WholeTags(st, files[k], extractTags(st.vault[files[k].path]), 1),
                    files, k + 1)

\* The vault and the count a run over vault v ends with.
WholeRun(v) ==
    WholeBatch([vault |-> v, cache |-> EmptyCache, count |-> 0],
               getFilesInPath(SearchPath), 1)

(***************************************************************************)
(* C1 .. C8: a run as a whole                                              *)
(***************************************************************************)

\* The last run has reported and no other has started.
Reported == run.pc = "idle" /\ runs > 0

\* The count of the final notice.
ReportedCount == notices[Len(notices)].n

\* The paths of a sequence of files.
PathsOf(files) == [k \in 1..Len(files) |-> files[k].path]

\* The notes the run scans.
Scanned == {getFilesInPath(SearchPath)[k] : k \in 1..Len(getFilesInPath(SearchPath))}

\* The mappings of the settings.
Mappings == {settings.tagMappings[k] : k \in 1..Len(settings.tagMappings)}

\* The mappings that a tag of the text matches.
MappingsOfText(content) ==
    LET tags == extractTags(content)
    IN  {m \in Mappings : \E k \in 1..Len(tags) : StripHash(m.tag) = StripHash(tags[k])}

\* C1: once a run has completed (here: with no read or write failed so far),
\* a further run over the unchanged vault writes no hub and reports 0 links
\* added.
C1_IdempotentAcrossRuns ==
    (failures = 0 /\ runs >= 1) =>
        /\ (run.pc # "idle" => writes = <<>> /\ vault = vault0)
        /\ (run.pc = "idle" /\ runs >= 2 => writes = <<>> /\ ReportedCount = 0)

\* C2: in one run, at most one link line for a basename is inserted into a
\* hub, however many tags, mappings and notes of that basename route to it.
C2_OneInsertionPerRun ==
    \A a, b \in 1..Len(writes) :
        (writes[a].path = writes[b].path /\ writes[a].fileName = writes[b].fileName)
            => a = b

\* C2 witness: the run comes to a hub for a basename it has inserted there
\* before for another note and through a mapping written differently.
C2_Witness ==
    /\ run.pc = "check"
    /\ CurrentMapping.mocPath # CurrentMocPath
    /\ \E a \in 1..Len(writes) :
        /\ writes[a].path = CurrentMocPath
        /\ writes[a].fileName = CurrentFile.basename
        /\ writes[a].note # CurrentFile.path

\* C3: the counter is the number of hub writes done in the run so far, and the
\* count reported is the number of hub writes of the run.
C3_CountIsWrites ==
    /\ run.pc # "idle" => totalNotesAdded = Len(writes)
    /\ Reported => /\ notices[Len(notices)].kind = "complete"
                   /\ ReportedCount = Len(writes)

\* C3 witness: a run has reported after a hub write was done, another hub
\* write failed and a mapping was skipped for a hub that does not exist.
C3_Witness ==
    /\ Reported
    /\ Len(writes) >= 1
    /\ \E t \in touched : t.kind = "modify"
    /\ \E m \in Mappings : m.mocPath # <<>> /\ ensureMdExtension(m.mocPath) \notin DOMAIN vault

\* The hubs the mappings route a note to, by the text the note had when the
\* run started.
RoutedHubs(file) ==
    {ensureMdExtension(m.mocPath) : m \in {x \in MappingsOfText(vault0[file.path]) :
                                              x.mocPath # <<>>}}
    \cap DOMAIN vault0

\* The hub held a link to the name when the run started, or the run has
\* written one.
Linked(mocPath, fileName) ==
    \/ Includes(extractExistingLinks(vault0[mocPath]), fileName)
    \/ \E a \in 1..Len(writes) : writes[a].path = mocPath /\ writes[a].fileName = fileName

\* C4: when reads or writes have failed, every (note, hub) pair that no
\* failure hit is linked when the run reports, as without the failure.
C4_FailureIsolation ==
    Reported =>
        \A file \in Scanned : \A mocPath \in RoutedHubs(file) :
            (/\ vault[file.path] = vault0[file.path]
             /\ ~\E t \in touched : t.note = file.path /\ t.path \in {file.path, mocPath})
            => Linked(mocPath, file.basename)

\* C4 witness: the read of the first note has failed and the run has written
\* a link for a later note.
C4_Witness ==
    /\ Reported
    /\ \E t \in touched : t.kind = "readNote" /\ t.note = NoteA.path
    /\ \E a \in 1..Len(writes) : writes[a].note # NoteA.path

\* The run is at a mapping whose hub path resolves to no file.
AtMissingHub ==
    /\ run.pc = "mappings"
    /\ run.midx <= Len(run.mappings)
    /\ CurrentMapping.mocPath # <<>>
    /\ CurrentMocPath \notin DOMAIN vault

\* C5: at a mapping whose hub does not exist, the run creates and writes no
\* file, adds nothing to the count and goes on with the next mapping.
C5_MissingHub ==
    [][AtMissingHub =>
          /\ vault' = vault
          /\ totalNotesAdded' = totalNotesAdded
          /\ run'.pc = "mappings"
          /\ run'.midx = run.midx + 1
          /\ run'.mappings = run.mappings]_vars

\* C5 witness: the run has passed a mapping whose hub does not exist.
C5_Witness ==
    /\ run.pc = "mappings"
    /\ run.midx > 1
    /\ run.mappings[run.midx - 1].mocPath # <<>>
    /\ ensureMdExtension(run.mappings[run.midx - 1].mocPath) \notin DOMAIN vault

\* C6: every run that has started reports.
C6_RunReports == (run.pc # "idle") ~> Reported

\* C6 witness: a run has reported although a read or write failed and a hub
\* was missing.
C6_Witness ==
    /\ Reported
    /\ touched # {}
    /\ \E m \in Mappings : m.mocPath # <<>> /\ ensureMdExtension(m.mocPath) \notin DOMAIN vault

\* The hubs named by a mapping whose tag is a tag of a scanned note.
MatchedHubPaths ==
    {ensureMdExtension(m.mocPath) :
        m \in UNION {MappingsOfText(vault0[file.path]) : file \in Scanned}
              \cup UNION {MappingsOfText(vault[file.path]) :
                             file \in {f \in Scanned : vault[f.path] # vault0[f.path]}}}

\* C7: a run changes only hubs named by a mapping whose tag matched a tag of
\* a scanned note; no file is created or deleted.
C7_Frame ==
    /\ DOMAIN vault = DOMAIN vault0
    /\ \A path \in DOMAIN vault0 : vault[path] # vault0[path] => path \in MatchedHubPaths

\* C7 witness: a run has reported that changed a hub.
C7_Witness == Reported /\ vault[HubM.path] # vault0[HubM.path]

\* C8: whatever the batch size, a run in which nothing fails comes to the
\* notes in the order of the list and ends with the hubs and the count of the
\* run in one piece.
C8_BatchSizeFree ==
    (Reported /\ touched = {}) =>
        /\ visited = PathsOf(getFilesInPath(SearchPath))
        /\ vault = WholeRun(vault0).vault
        /\ ReportedCount = WholeRun(vault0).count

\* C8 witness: a run of several batches of more than one file has reported.
C8_Witness ==
    /\ Reported
    /\ touched = {}
    /\ settings.batchSize > 1
    /\ Len(visited) > settings.batchSize
    /\ Len(writes) > 1

(***************************************************************************)
(* extractTags and the selection of mappings on their own                  *)
(***************************************************************************)

\* The elements of the front-matter lists tried: a tag, the tag with '#', the
\* tag in upper case, a tag that the first is a part of.
ListTags == {<<"t">>, <<"#", "t">>, <<"T">>, <<"t", "t">>}

\* The front-matter lines tried before the list: none, another key, a key
\* whose name ends in "tags".
LinesBefore == {<<>>, <<"k", ":", " ", "v", "\n">>, <<"x", "t", "a", "g", "s", ":", " ", "[", "c", "]", "\n">>}

\* The bodies tried: empty, one inline tag, text with two inline tags, text
\* without a tag.
Bodies == {<<>>, <<"#", "t">>, <<"x", " ", "#", "u", " ", "#", "t">>, <<"x">>}

\* A note whose front-matter holds the inline list tags: [a, b].
ListText(before, a, b, body) ==
    <<"-", "-", "-", "\n">> \o before \o <<"t", "a", "g", "s", ":", " ", "[">> \o a \o <<",", " ">> \o b \o <<"]", "\n", "-", "-", "-", "\n">> \o body

\* The mapping table tried: the tag without and with '#', in upper case, and
\* a tag that the first is a part of.
TagTable ==
    << [tag |-> <<"t">>, mocPath |-> <<"M">>],
       [tag |-> <<"#", "t">>, mocPath |-> <<"K">>],
       [tag |-> <<"T">>, mocPath |-> <<"M">>],
       [tag |-> <<"t", "t">>, mocPath |-> <<"K">>] >>

\* The plugin is loaded and no run is in progress.
NothingRuns ==
    /\ vault = InitialNotes @@ (HubM.path :> <<>>) @@ (HubK.path :> <<>>)
    /\ fileCache = EmptyCache
    /\ mocLinksCache = EmptyCache
    /\ totalNotesAdded = 0
    /\ run = IdleRun
    /\ notices = <<>>
    /\ runs = 0
    /\ failures = 0
    /\ vault0 = vault
    /\ writes = <<>>
    /\ touched = {}
    /\ visited = <<>>
    /\ other = IdleRun
    /\ edits = 0

\* The note text is drawn; nothing runs.
TagInit ==
    /\ \/ \E before \in LinesBefore, a \in ListTags, b \in ListTags, body \in Bodies :
            call = [stage |-> "text", kind |-> "list", a |-> a, b |-> b,
                    content |-> ListText(before, a, b, body)]
       \/ \E body \in Bodies :
            call = [stage |-> "text", kind |-> "plain", a |-> <<>>, b |-> <<>>,
                    content |-> body]
    /\ settings = [tagMappings    |-> TagTable,
                   defaultPath    |-> <<"/">>,
                   appendFormat   |-> DefaultAppendFormat,
                   sectionHeading |-> DefaultSectionHeading,
                   batchSize      |-> 1]
    /\ NothingRuns

\* extractTags is applied to the text.
CallExtractTags ==
    /\ call.stage = "text"
    /\ call' = [call EXCEPT !.stage = "tags"] @@ [tags |-> extractTags(call.content)]
    /\ UNCHANGED <<outside, vault, settings, fileCache, mocLinksCache, totalNotesAdded,
                   run, notices, runs, failures, history>>

\* The mappings of one of the tags are selected.
CallMatchingMappings ==
    /\ call.stage = "tags"
    /\ \E k \in 1..Len(call.tags) :
        call' = [call EXCEPT !.stage = "selected"]
                 @@ [tag      |-> call.tags[k],
                     selected |-> matchingMappings(settings.tagMappings, call.tags[k])]
    /\ UNCHANGED <<outside, vault, settings, fileCache, mocLinksCache, totalNotesAdded,
                   run, notices, runs, failures, history>>

TagNext == CallExtractTags \/ CallMatchingMappings

TagSpec == TagInit /\ [][TagNext]_vars

(***************************************************************************)
(* C11, C13: mapping resolution and the order of the tags                  *)
(***************************************************************************)

\* A tag with its leading '#' removed if present.
WithoutLeadingHash(tag) == IF tag # <<>> /\ Head(tag) = "#" THEN Tail(tag) ELSE tag

\* C11: the mappings selected for a note tag are exactly those whose tag is
\* equal to it, character for character, once a leading '#' is removed from
\* both; the tag written with and without '#' selects the same mappings.
C11_MappingResolution ==
    call.stage = "selected" =>
        LET bare == WithoutLeadingHash(call.tag)
        IN  /\ call.selected =
                   SelectSeq(settings.tagMappings,
                             LAMBDA m : WithoutLeadingHash(m.tag) = bare)
            /\ (bare = <<>> \/ Head(bare) # "#") =>
                   matchingMappings(settings.tagMappings, <<"#">> \o bare)
                       = matchingMappings(settings.tagMappings, bare)

\* C11 witness: a note tag written with '#' has selected the mappings written
\* with and without '#', and not those in upper case or with one letter more.
C11_Witness ==
    /\ call.stage = "selected"
    /\ call.tag = <<"#", "t">>
    /\ Len(call.selected) = 2
    /\ Len(settings.tagMappings) = 4

\* The inline #tag occurrences of a text, in text order.
InlineOccurrences(content) ==
    LET at == SelectSeq([i \in 1..Len(content) |-> i],
                        LAMBDA i : content[i] = "#" /\ SpanIn(content, i + 1, TagChars) > 0)
    IN  [k \in 1..Len(at) |->
            SubSeq(content, at[k] + 1, at[k] + SpanIn(content, at[k] + 1, TagChars))]

\* C13: for a text whose front-matter has the inline list tags: [a, b],
\* extractTags returns a and b in list order, followed by the inline #tag
\* occurrences of the whole text in text order; a text without front-matter
\* and without #tag gives the empty sequence.
C13_TagOrder ==
    call.stage \in {"tags", "selected"} =>
        /\ call.kind = "list" =>
              \E n \in 0..Len(call.tags) :
                  /\ SubSeq(call.tags, n + 1, Len(call.tags)) = InlineOccurrences(call.content)
                  /\ \E i, j \in 1..n : i < j /\ call.tags[i] = call.a /\ call.tags[j] = call.b
        /\ (call.kind = "plain" /\ InlineOccurrences(call.content) = <<>>) =>
              call.tags = <<>>

(***************************************************************************)
(* The command invoked again and files changed from outside while a run    *)
(* is suspended                                                            *)
(***************************************************************************)

\* The most changes made to notes from outside in a behaviour.
MaxEdits == 1

\* The positions at which a run is suspended on a read or a write of the
\* vault: other callbacks (the command, the handlers of 'modify' and
\* 'delete') run only there and between runs.
AwaitPcs == {"readNote", "readMoc", "modify"}

\* The texts a note is given from outside.
EditedTexts == {<<"#", "t">>, <<"#", "u">>}

\* One vault and one set of settings: the notes of folder d are scanned, hub
\* M starts with the heading; the tag t is mapped to hub M, to a hub that does
\* not exist and to no hub yet, the tag u is not mapped.
OpenInit ==
    /\ vault = InitialNotes @@ (HubM.path :> <<"#", "#", " ", "L", "i", "n", "k", "s", "\n">>) @@ (HubK.path :> <<>>)
    /\ settings = [tagMappings    |-> << [tag |-> <<"t">>, mocPath |-> <<"M">>],
                                         [tag |-> <<"t">>, mocPath |-> <<"X">>],
                                         [tag |-> <<"t">>, mocPath |-> <<>>] >>,
                   defaultPath    |-> <<"d">>,
                   appendFormat   |-> DefaultAppendFormat,
                   sectionHeading |-> DefaultSectionHeading,
                   batchSize      |-> 1]
    /\ fileCache = EmptyCache
    /\ mocLinksCache = EmptyCache
    /\ totalNotesAdded = 0
    /\ run = IdleRun
    /\ notices = <<>>
    /\ runs = 0
    /\ failures = 0
    /\ vault0 = vault
    /\ writes = <<>>
    /\ touched = {}
    /\ visited = <<>>
    /\ call = NoCall
    /\ other = IdleRun
    /\ edits = 0

\* The command is invoked while a run is suspended: runAutoIndex starts anew
\* (the callback tests nothing) and the run before it stays suspended.
StartSecondRun ==
    /\ run.pc \in AwaitPcs
    /\ other.pc = "idle"
    /\ runs + 1 < MaxRuns
    /\ other' = run
    /\ LET files == getFilesInPath(SearchPath)
       IN  /\ run' = [IdleRun EXCEPT !.pc = "batches", !.files = files]
           /\ notices' = Append(notices, [kind |-> "start", n |-> Len(files)])
    /\ totalNotesAdded' = 0
    /\ mocLinksCache' = EmptyCache
    /\ UNCHANGED <<call, edits, vault, settings, fileCache, runs, failures, history>>

\* The read or write the suspended run awaits completes while the run that
\* was executing is suspended itself or has ended: the suspended run goes on.
Resume ==
    /\ run.pc \in AwaitPcs \cup {"idle"}
    /\ other.pc # "idle"
    /\ run' = other
    /\ other' = run
    /\ UNCHANGED <<call, edits, vault, settings, fileCache, mocLinksCache,
                   totalNotesAdded, notices, runs, failures, history>>

\* A note is changed from outside; the vault emits 'modify' for it.
ExternalModify ==
    /\ run.pc \in AwaitPcs \cup {"idle"}
    /\ edits < MaxEdits
    /\ edits' = edits + 1
    /\ NoteA2.path \in DOMAIN vault
    /\ \E text \in EditedTexts \ {vault[NoteA2.path]} :
        vault' = [vault EXCEPT ![NoteA2.path] = text]
    /\ fileCache' = OnModify(fileCache, NoteA2.path)
    /\ UNCHANGED <<call, other, settings, mocLinksCache, totalNotesAdded, run,
                   notices, runs, failures, history>>

\* A note is deleted between runs; the vault emits 'delete' for it.
ExternalDelete ==
    /\ run.pc = "idle"
    /\ other.pc = "idle"
    /\ edits < MaxEdits
    /\ edits' = edits + 1
    /\ NoteA2.path \in DOMAIN vault
    /\ vault' = Without(vault, NoteA2.path)
    /\ fileCache' = OnDelete(fileCache, NoteA2.path)
    /\ UNCHANGED <<call, other, settings, mocLinksCache, totalNotesAdded, run,
                   notices, runs, failures, history>>

\* The read returns the text the note had when the read began, although the
\* note was changed, and 'modify' was emitted, while the read was in flight.
ReadNoteOkStale ==
    /\ run.pc = "readNote"
    /\ run.pending # vault[CurrentFile.path]
    /\ LET content == run.pending
           tags    == extractTags(content)
       IN  /\ fileCache' = With(fileCache, CurrentFile.path,
                                [content |-> content, tags |-> tags])
           /\ run' = [run EXCEPT !.pc = "tags", !.tags = tags, !.tidx = 1]
    /\ UNCHANGED <<call, outside, vault, settings, mocLinksCache, totalNotesAdded,
                   notices, runs, failures, history>>

OpenNext ==
    \/ Next
    \/ StartSecondRun \/ Resume
    \/ ExternalModify \/ ExternalDelete
    \/ ReadNoteOkStale

OpenSpec == OpenInit /\ [][OpenNext]_vars

(***************************************************************************)
(* C12: one run at a time                                                  *)
(***************************************************************************)

\* The positions of a run inside the read/merge/write sequence on a hub.
HubPcs == {"readMoc", "check", "modify"}

\* The step leaves the run in progress suspended where it is: the step is
\* taken by something else.
StaysSuspended == run.pc \in AwaitPcs /\ (run' = run \/ other' = run)

\* C12: at most one read/merge/write sequence on a hub is in progress, and
\* while the run in progress is suspended nothing else changes the hub cache,
\* the note cache or the counter of links added.
C12_StrictlySequential ==
    [][/\ ~(run'.pc \in HubPcs /\ other'.pc \in HubPcs)
       /\ StaysSuspended =>
              UNCHANGED <<fileCache, mocLinksCache, totalNotesAdded>>]_vars

(***************************************************************************)
(* C14: the hub cache after an insertion                                   *)
(***************************************************************************)

\* C14: a step that inserts a link leaves the hub cached with the text just
\* written and with the links known before plus the basename of the note; the
\* text a later insertion of the run writes is built on the text of the hub
\* in storage, from the cache.
C14_HubCacheCoherence ==
    [][/\ totalNotesAdded' = totalNotesAdded + 1 =>
              /\ mocLinksCache'[CurrentMocPath].content = vault'[CurrentMocPath]
              /\ mocLinksCache'[CurrentMocPath].links
                     = Append(mocLinksCache[CurrentMocPath].links, CurrentFile.basename)
       /\ (run.pc = "check" /\ run'.pc = "modify") =>
              /\ mocLinksCache[CurrentMocPath].content = vault[CurrentMocPath]
              /\ run'.updatedContent =
                     addLinkToMOC(vault[CurrentMocPath],
                                  NewLink(settings.appendFormat, CurrentFile.basename),
                                  SectionHeading)]_vars

\* C14 witness: a second link is about to be written to a hub the run has
\* written before and has not read again.
C14_Witness ==
    /\ run.pc = "modify"
    /\ \E a \in 1..Len(writes) :
        /\ writes[a].path = CurrentMocPath
        /\ writes[a].fileName # CurrentFile.basename
    /\ Cardinality({t \in touched : t.kind = "readMoc"}) = 0

(***************************************************************************)
(* C15: the note cache after a change                                      *)
(***************************************************************************)

\* The step changes or deletes the file (the vault emits 'modify' or 'delete').
Changed(path) ==
    /\ path \in DOMAIN vault
    /\ (path \notin DOMAIN vault' \/ vault'[path] # vault[path])

\* C15: a step that changes or deletes a file leaves the note cache without
\* an entry for its path, and a run that comes to the note afterwards reads it
\* again: the tags it takes from the cache are never tags of a text the note
\* had before the change.
C15_ChangeInvalidation ==
    [][/\ \A path \in DOMAIN vault : Changed(path) => path \notin DOMAIN fileCache'
       /\ (run.pc = "files" /\ run'.pc = "tags") =>
              fileCache[CurrentFile.path].content = vault[CurrentFile.path]]_vars

(***************************************************************************)
(* C16, C17: the link line and its insertion                               *)
(***************************************************************************)

\* The template with its first placeholder replaced by the name, character
\* for character.
VerbatimLine(template, name) ==
    LET at == IndexOf(template, Placeholder)
    IN  IF at = 0 THEN template
        ELSE SubSeq(template, 1, at - 1) \o name
             \o SubSeq(template, at + Len(Placeholder), Len(template))

\* C16: the link line of a note is the template with the placeholder replaced
\* by the basename, character for character.
C16_LinkLineVerbatim ==
    call.stage = "line" => call.line = VerbatimLine(settings.appendFormat, call.name)

\* The number of places at which pat occurs in s.
Occurrences(s, pat) == Cardinality({i \in 1..Len(s) : OccursAt(s, pat, i)})

\* C17: one call of addLinkToMOC adds exactly one occurrence of the link
\* line, unaltered, to the text.
C17_SingleInsertion ==
    call.stage \in {"merged", "extracted"} =>
        Occurrences(call.updatedContent, call.newLink)
            = Occurrences(call.content, call.newLink) + 1

(***************************************************************************)
(* C18: a write that fails                                                 *)
(***************************************************************************)

\* A write of the hub for the note has failed in this run and none was done.
WriteFailedOnly(note, mocPath, fileName) ==
    /\ \E t \in touched : t.kind = "modify" /\ t.note = note /\ t.path = mocPath
    /\ ~\E a \in 1..Len(writes) : writes[a].path = mocPath /\ writes[a].fileName = fileName

\* C18: a step in which the write of a hub fails leaves the hub, its cached
\* text and its known links as they were, and a later mapping of the run that
\* routes the note to the hub goes on to write again.
C18_WriteFailureKeepsState ==
    [][/\ (run.pc = "modify" /\ failures' # failures) =>
              /\ vault' = vault
              /\ mocLinksCache' = mocLinksCache
              /\ totalNotesAdded' = totalNotesAdded
       /\ (/\ run.pc = "check"
           /\ WriteFailedOnly(CurrentFile.path, CurrentMocPath, CurrentFile.basename)) =>
              run'.pc = "modify"]_vars

\* C18 witness: the insertion is attempted again through a later mapping after
\* the write for the same note and hub has failed.
C18_Witness ==
    /\ run.pc = "modify"
    /\ run.midx > 1
    /\ WriteFailedOnly(CurrentFile.path, CurrentMocPath, CurrentFile.basename)

(***************************************************************************)
(* C19: the note cache when a run starts                                   *)
(***************************************************************************)

\* A run has started and has not come to its first batch yet.
RunStarts == run.pc = "batches" /\ run.i = 0

\* C19: when a run starts, every entry of the note cache holds the tags of
\* the text the note has.
C19_NoStaleNoteCache ==
    RunStarts =>
        \A path \in DOMAIN fileCache :
            /\ path \in DOMAIN vault
            /\ fileCache[path].tags = extractTags(vault[path])

(***************************************************************************)
(* The links of a hub across an insertion                                   *)
(***************************************************************************)

\* The longest hub text tried, in tokens.
MaxTokens == 5

\* The tokens of the hub texts tried: the brackets of a link, the heading, a
\* line break and a letter.
Tokens == {<<"[", "[">>, <<"]", "]">>, <<"H">>, <<"\n">>, <<"a">>}

\* The texts of at most n tokens.
RECURSIVE TokenTexts(_)
TokenTexts(n) ==
    IF n = 0 THEN {<<>>}
    ELSE LET shorter == TokenTexts(n - 1)
         IN  shorter \cup {t \o c : t \in shorter, c \in Tokens}

\* The arguments are drawn; nothing runs.
LinkInit ==
    /\ \E text \in TokenTexts(MaxTokens), heading \in Headings, name \in NoteNames :
        call = [stage |-> "args", content |-> text, sectionHeading |-> heading,
                name |-> name, newLink |-> LinkLineOf(name)]
    /\ settings = [tagMappings    |-> <<>>,
                   defaultPath    |-> <<"/">>,
                   appendFormat   |-> DefaultAppendFormat,
                   sectionHeading |-> DefaultSectionHeading,
                   batchSize      |-> 1]
    /\ NothingRuns

LinkSpec == LinkInit /\ [][MergeNext]_vars

\* The texts between "[[" and the next "]]" that extractExistingLinks takes
\* for links, as they stand in the text.
RECURSIVE RawLinksOfSections(_, _)
RawLinksOfSections(sections, i) ==
    IF i > Len(sections) THEN {}
    ELSE LET endIdx == IndexOf(sections[i], <<"]", "]">>)
         IN  (IF endIdx # 0 THEN {SubSeq(sections[i], 1, endIdx - 1)} ELSE {})
             \cup RawLinksOfSections(sections, i + 1)

RawLinks(content) == RawLinksOfSections(Split(content, <<"[", "[">>), 2)

\* No link of the text runs over a line break.
LinksWithinLines(content) ==
    \A raw \in RawLinks(content) : \A k \in 1..Len(raw) : raw[k] \notin LineTerminators

\* Every note name found in the text before the insertion is found after it.
LinksKept ==
    call.stage = "extracted" =>
        LET found == extractExistingLinks(call.content)
        IN  \A k \in 1..Len(found) : Includes(call.links, found[k])

====
